---- MODULE Spec2Model ----
(***************************************************************************)
(* Model of the authenticated request pipeline of the trading bot:         *)
(* BinanceFuturesClient._request (signing, attempt loop, response          *)
(* classification, backoff) and the client operations built on it.         *)
(*                                                                         *)
(* One send is modelled as: the call (parameter defaulting and signing,    *)
(* binance_client.py 46-55), then one step per iteration of the attempt    *)
(* loop (57-98), the step taken depending on what the HTTP layer answers,  *)
(* then the return to the caller.  events is the history of the HTTP       *)
(* calls and sleeps of the current send.                                   *)
(***************************************************************************)
EXTENDS Integers, Sequences, FiniteSets, TLC

VARIABLES
    pc,             \* "idle" | "loop" | "done": position of the caller/_request
    method,         \* method argument of the current send
    signed,         \* signed argument of the current send
    params,         \* the mapping _request sends (after `params or {}` and signing)
    callerParams,   \* the mapping object the caller holds (mutated in place when passed non-empty)
    attempt,        \* loop variable of `for attempt in range(MAX_RETRIES)` (0-based)
    events,         \* HTTP calls and sleeps of the current send, in order
    response,       \* last HTTP response received in the current send
    outcome,        \* how the current send ended ("none" while running)
    result,         \* value returned (Success) or error payload
    sigInput,       \* query_string the signature of the current send was computed over
    now,            \* wall clock, in milliseconds
    sendsDone,      \* number of sends that have returned to the caller
    lastOutcome,    \* outcome of the previous send
    jsonErrCaught,  \* build: does response.json() raise a RequestException subclass
    created,        \* orders the exchange created for the HTTP calls of the current send
    \* OrderValidator (validators.py): one call of one validator
    vpc,            \* "off" | "call" | "done"
    vfn,            \* the validator called
    varg,           \* its argument
    vres,           \* the value returned or the exception raised
    \* one run of a strategy command (main then Executor.execute)
    xpc,            \* "off" | "start" | "placing" | "returning" | "done" | "exited"
    strategy,       \* the command run
    xin,            \* its arguments
    xi,             \* loop variable i of grid/TWAP, step of the others
    requests,       \* place_order calls issued so far, with their outcome
    xcalls,         \* HTTP calls issued so far in this run
    xsleeps,        \* time.sleep calls of the executor: <<slice, seconds>>
    results,        \* TWAP: the results list
    buy_orders,     \* grid: buy_orders
    sell_orders,    \* grid: sell_orders
    xerror,         \* exception that left execute ("none" if it returned)
    exitCode,       \* exit status of the command (-1 while running)
    \* one record through the logging handlers (logger_config.py)
    lpc,            \* "off" | "logged" | "filtered" | "emitted"
    lrecord,        \* the LogRecord: msg and the extra fields
    lemitted        \* what the handler wrote

pipeVars == <<pc, method, signed, params, callerParams, attempt, events, response,
              outcome, result, sigInput, now, sendsDone, lastOutcome, jsonErrCaught,
              created>>

valVars == <<vpc, vfn, varg, vres>>

execVars == <<xpc, strategy, xin, xi, requests, xcalls, xsleeps, results,
              buy_orders, sell_orders, xerror, exitCode>>

logVars == <<lpc, lrecord, lemitted>>

vars == <<pipeVars, valVars, execVars, logVars>>

-----------------------------------------------------------------------------
(* Configuration (config.py) *)

MAX_RETRIES == 3
RETRY_DELAY == 1
DEFAULT_RECV_WINDOW == 60000
API_SECRET == "secret"

(* Bounds of the model *)

MaxSends == 2          \* sends per behaviour
StartMs == 5000        \* clock reading at start

-----------------------------------------------------------------------------
(* Values of a parameter mapping: strings and integers, tagged *)

Str(s) == <<"s", s>>
Num(n) == <<"i", n>>

(* A python dict is an insertion-ordered sequence of <<key, value>> pairs *)

Keys(d) == {d[i][1] : i \in 1..Len(d)}

HasKey(d, k) == k \in Keys(d)

\* d[k]
DictGet(d, k) == d[CHOOSE i \in 1..Len(d) : d[i][1] = k][2]

\* d[k] = v : an existing key keeps its position, a new key is appended
DictSet(d, k, v) ==
    IF HasKey(d, k)
    THEN [i \in 1..Len(d) |-> IF d[i][1] = k THEN <<k, v>> ELSE d[i]]
    ELSE Append(d, <<k, v>>)

\* urlencode(params): key=value pairs in mapping order joined by "&"
RECURSIVE urlencode(_)
urlencode(d) ==
    IF Len(d) = 0 THEN <<>>
    ELSE IF Len(d) = 1 THEN <<d[1][1], "=", d[1][2]>>
    ELSE <<d[1][1], "=", d[1][2], "&">> \o urlencode(Tail(d))

\* value encoded for key k in a query string (the token after "k=")
EncodedValue(q, k) == q[(CHOOSE i \in {j \in 1..Len(q) : j % 4 = 1} : q[i] = k) + 2]

\* keys that occur in an encoded query string (the token before each "=")
EncodedKeys(q) == {q[i] : i \in {j \in 1..Len(q) : j % 4 = 1}}

\* hmac.new(secret, query_string, sha256).hexdigest(), collision-free
hmac(secret, q) == <<"hmac", secret, q>>

_generate_signature(d) == hmac(API_SECRET, urlencode(d))

-----------------------------------------------------------------------------
(* Inputs *)

Methods == {"GET", "POST", "DELETE", "PUT"}
SupportedMethods == {"GET", "POST", "DELETE"}

OrderParams == <<  <<"symbol", Str("BTCUSDT")>>, <<"side", Str("BUY")>>  >>

\* mappings a caller passes: none/empty, a fresh order, or the mapping it
\* already holds from an earlier send
ParamInputs == {<<>>, OrderParams, callerParams}

JsonBody == "{}"
ListBody == "[]"
HtmlBody == "<html>"
Bodies == {JsonBody, ListBody, HtmlBody}

IsJson(b) == b \in {JsonBody, ListBody}
ParseJson(b) == <<"json", b>>

NoResponse == [status |-> 0, body |-> ""]

\* status codes the server answers with: one per branch of the chain, both
\* codes of the ban branch, 400 for the final else
Statuses == {200, 429, 418, 403, 400}

\* lines 74-92: the if/elif chain on response.status_code
Classify_403AsApiError(st) ==
    IF st = 200 THEN "Success"
    ELSE IF st = 429 THEN "RateLimited"
    ELSE IF st \in {418} THEN "Banned"
    ELSE "ApiError"

Classify(st) ==
    IF st = 200 THEN "Success"
    ELSE IF st = 429 THEN "RateLimited"
    ELSE IF st \in {418, 403} THEN "Banned"
    ELSE "ApiError"

-----------------------------------------------------------------------------
(* History events *)

\* json: response.json() was called on this response and returned a value
\* (the 429 and 418/403 branches do not call it)
CallEv(n, st, js) == [ev |-> "call", attempt |-> n, status |-> st, json |-> js, secs |-> 0]
SleepEv(n, s)     == [ev |-> "sleep", attempt |-> n, status |-> 0, json |-> FALSE, secs |-> s]

Calls  == {i \in 1..Len(events) : events[i].ev = "call"}
Sleeps == {i \in 1..Len(events) : events[i].ev = "sleep"}

-----------------------------------------------------------------------------
Init ==
    /\ pc = "idle"
    /\ method = "GET"
    /\ signed = FALSE
    /\ params = <<>>
    /\ callerParams = <<>>
    /\ attempt = 0
    /\ events = <<>>
    /\ response = NoResponse
    /\ outcome = "none"
    /\ result = <<>>
    /\ sigInput = <<>>
    /\ now = StartMs
    /\ sendsDone = 0
    /\ lastOutcome = "none"
    /\ jsonErrCaught \in BOOLEAN
    /\ created = 0
    /\ lpc = "off"
    /\ lrecord = <<>>
    /\ lemitted = <<>>
    /\ vpc = "off"
    /\ vfn = "none"
    /\ varg = <<>>
    /\ vres = <<>>
    /\ xpc = "off"
    /\ strategy = "none"
    /\ xin = <<>>
    /\ xi = 0
    /\ requests = <<>>
    /\ xcalls = 0
    /\ xsleeps = <<>>
    /\ results = <<>>
    /\ buy_orders = <<>>
    /\ sell_orders = <<>>
    /\ xerror = "none"
    /\ exitCode = -1

-----------------------------------------------------------------------------
(* _request, lines 49-55: defaulting and signing *)

\* lines 51-55: the three assignments of a signed send, on mapping d at time t
WithTimestamp_KeepExisting(d, t) ==
    IF HasKey(d, "timestamp") THEN d ELSE DictSet(d, "timestamp", Num(t - 2000))

WithTimestamp(d, t) == DictSet(d, "timestamp", Num(t - 2000))

WithRecvWindow_Skip(d) == d

WithRecvWindow(d)   == DictSet(d, "recvWindow", Num(DEFAULT_RECV_WINDOW))
SignInput(d, t)     == WithRecvWindow(WithTimestamp(d, t))
Signed(d, t)        == DictSet(SignInput(d, t), "signature", _generate_signature(SignInput(d, t)))

\* the call of _request(method, endpoint, params, signed) up to the loop
_request_AlwaysSigns(m, p, s) ==
    /\ pc = "idle"
    /\ sendsDone < MaxSends
    /\ pc' = "loop"
    /\ method' = m
    /\ signed' = s
    /\ params' = Signed(p, now)
    /\ sigInput' = urlencode(SignInput(p, now))
    /\ attempt' = 0
    /\ events' = <<>>
    /\ response' = NoResponse
    /\ outcome' = "none"
    /\ result' = <<>>
    /\ created' = 0
    /\ UNCHANGED <<now, sendsDone, lastOutcome, jsonErrCaught>>
    /\ UNCHANGED <<valVars, execVars, logVars>>

_request(m, p, s) ==
    /\ pc = "idle"
    /\ sendsDone < MaxSends
    /\ pc' = "loop"
    /\ method' = m
    /\ signed' = s
    /\ params' = IF s THEN Signed(p, now) ELSE p
    /\ sigInput' = IF s THEN urlencode(SignInput(p, now)) ELSE <<>>
    /\ attempt' = 0
    /\ events' = <<>>
    /\ response' = NoResponse
    /\ outcome' = "none"
    /\ result' = <<>>
    /\ created' = 0
    /\ UNCHANGED <<now, sendsDone, lastOutcome, jsonErrCaught>>
    /\ UNCHANGED <<valVars, execVars, logVars>>

\* line 49, `params or {}`: the mapping the caller passed is the one
\* _request works on (and mutates in place), unless it is empty: then
\* _request works on a new one
Passed(p, sent) == IF Len(p) = 0 THEN p ELSE sent

\* a caller of _request passing a mapping it holds
Send ==
    \E m \in Methods, p \in ParamInputs, s \in BOOLEAN :
        /\ _request(m, p, s)
        /\ callerParams' = Passed(p, params')

\* place_order(params), lines 108-112
place_order ==
    \E p \in ParamInputs \ {<<>>} :
        /\ _request("POST", p, TRUE)
        /\ callerParams' = Passed(p, params')

\* the mappings the other client operations build; the caller of the
\* operation holds no reference to them
SymbolParams == <<  <<"symbol", Str("BTCUSDT")>>  >>
OrderIdParams == <<  <<"symbol", Str("BTCUSDT")>>, <<"orderId", Num(1)>>  >>

\* get_exchange_info(symbol), lines 102-106
get_exchange_info ==
    /\ \E p \in {<<>>, SymbolParams} : _request("GET", p, FALSE)
    /\ UNCHANGED callerParams

\* cancel_order(symbol, order_id), lines 114-119
cancel_order ==
    /\ _request("DELETE", OrderIdParams, TRUE)
    /\ UNCHANGED callerParams

\* get_order(symbol, order_id), lines 121-125
get_order ==
    /\ _request("GET", OrderIdParams, TRUE)
    /\ UNCHANGED callerParams

\* get_account_info(), lines 127-130: no params argument
get_account_info ==
    /\ _request("GET", <<>>, TRUE)
    /\ UNCHANGED callerParams

-----------------------------------------------------------------------------
(* _request, lines 57-100: the attempt loop *)

\* line 57: for attempt in range(MAX_RETRIES)
InRange_OneMore(a) == a <= MAX_RETRIES

InRange(a) == a < MAX_RETRIES

InLoop == pc = "loop" /\ InRange(attempt)

\* raise: the send ends with error kind k and payload r
Raise(k, r) ==
    /\ pc' = "done"
    /\ outcome' = k
    /\ result' = r
    /\ attempt' = attempt

\* time.sleep(secs) then the next iteration of the for loop; line 100 when
\* the range is exhausted
NextAttempt(a) == a + 1

SleepAndContinue(ev, secs) ==
    /\ events' = events \o <<ev, SleepEv(attempt + 1, secs)>>
    /\ now' = now + 1000 * secs
    /\ IF InRange(NextAttempt(attempt))
       THEN /\ pc' = "loop"
            /\ attempt' = NextAttempt(attempt)
            /\ UNCHANGED <<outcome, result>>
       ELSE Raise("RequestFailed", <<>>)

\* line 82
BackoffDelay_ZeroBased(a) == RETRY_DELAY * a

BackoffDelay_Fixed(a) == RETRY_DELAY

BackoffDelay(a) == RETRY_DELAY * (a + 1)

\* line 98
TransportDelay_Linear(a) == RETRY_DELAY * (a + 1)

TransportDelay(a) == RETRY_DELAY

\* lines 94-98: except requests.exceptions.RequestException
IsLastAttempt_Never(a) == FALSE

IsLastAttempt(a) == a = MAX_RETRIES - 1

ExceptRequestException(ev) ==
    IF IsLastAttempt(attempt)
    THEN /\ events' = Append(events, ev)
         /\ Raise("MaxRetriesExceeded", <<>>)
         /\ now' = now
    ELSE SleepAndContinue(ev, TransportDelay(attempt))

\* response.json() on a body that is not JSON: requests >= 2.27 raises
\* requests.exceptions.JSONDecodeError (a RequestException, caught at line
\* 94), older builds raise a plain ValueError that leaves _request
JsonError(ev) ==
    IF jsonErrCaught
    THEN ExceptRequestException(ev)
    ELSE /\ events' = Append(events, ev)
         /\ Raise("JSONDecodeError", <<>>)
         /\ now' = now

Frame_Retimestamp ==
    /\ params' = IF signed THEN DictSet(params, "timestamp", Num(now' - 2000)) ELSE params
    /\ UNCHANGED <<method, signed, callerParams, sigInput,
                   sendsDone, lastOutcome, jsonErrCaught, valVars, execVars, logVars>>

Frame == UNCHANGED <<method, signed, params, callerParams, sigInput,
                     sendsDone, lastOutcome, jsonErrCaught, valVars, execVars, logVars>>

\* the ValueError of line 68 handled by the except clause of line 94
UnsupportedMethod_Caught ==
    /\ InLoop
    /\ method \notin SupportedMethods
    /\ response' = response
    /\ created' = created
    /\ IF IsLastAttempt(attempt)
       THEN /\ Raise("MaxRetriesExceeded", <<>>)
            /\ UNCHANGED <<events, now>>
       ELSE /\ events' = Append(events, SleepEv(attempt + 1, TransportDelay(attempt)))
            /\ now' = now + 1000 * TransportDelay(attempt)
            /\ pc' = "loop"
            /\ attempt' = NextAttempt(attempt)
            /\ UNCHANGED <<outcome, result>>
    /\ Frame

\* lines 61-68: the method is none of GET, POST, DELETE; the ValueError is
\* no RequestException and leaves _request
UnsupportedMethod ==
    /\ InLoop
    /\ method \notin SupportedMethods
    /\ Raise("UnsupportedMethod", <<>>)
    /\ UNCHANGED <<events, response, now, created>>
    /\ Frame

\* line 64, session.post(url, params=params): the exchange creates one order
\* for every POST to the order endpoint that it processes; the parameters
\* carry no client order id, so a repeated POST is a new order.  accepted are
\* the possibilities: did the exchange process the request
Processed(m, n, accepted) ==
    IF m = "POST"
    THEN {IF a THEN n + 1 ELSE n : a \in accepted}
    ELSE {n}

\* lines 62-66 raise a RequestException (connection error, timeout): the
\* request may have reached the exchange before the response was lost
TransportFailure ==
    /\ InLoop
    /\ method \in SupportedMethods
    /\ response' = NoResponse
    /\ ExceptRequestException(CallEv(attempt + 1, 0, FALSE))
    /\ created' \in Processed(method, created, {TRUE, FALSE})
    /\ Frame

\* lines 74-77
Response200 ==
    /\ InLoop
    /\ method \in SupportedMethods
    /\ \E st \in Statuses, b \in Bodies :
        /\ Classify(st) = "Success"
        /\ response' = [status |-> st, body |-> b]
        /\ IF IsJson(b)
           THEN /\ events' = Append(events, CallEv(attempt + 1, st, TRUE))
                /\ pc' = "done"
                /\ outcome' = "Success"
                /\ result' = ParseJson(b)
                /\ UNCHANGED <<attempt, now>>
           ELSE JsonError(CallEv(attempt + 1, st, FALSE))
    /\ created' \in Processed(method, created, {TRUE})
    /\ Frame

\* lines 80-83
Response429 ==
    /\ InLoop
    /\ method \in SupportedMethods
    /\ \E st \in Statuses, b \in Bodies :
        /\ Classify(st) = "RateLimited"
        /\ response' = [status |-> st, body |-> b]
        /\ SleepAndContinue(CallEv(attempt + 1, st, FALSE), BackoffDelay(attempt))
    /\ created' = created
    /\ Frame

\* lines 85-87
ResponseBanned ==
    /\ InLoop
    /\ method \in SupportedMethods
    /\ \E st \in Statuses, b \in Bodies :
        /\ Classify(st) = "Banned"
        /\ response' = [status |-> st, body |-> b]
        /\ events' = Append(events, CallEv(attempt + 1, st, FALSE))
        /\ Raise("Banned", <<st, b>>)
        /\ now' = now
    /\ created' = created
    /\ Frame

\* lines 89-92
ResponseOther ==
    /\ InLoop
    /\ method \in SupportedMethods
    /\ \E st \in Statuses, b \in Bodies :
        /\ Classify(st) = "ApiError"
        /\ response' = [status |-> st, body |-> b]
        /\ IF IsJson(b)
           THEN /\ events' = Append(events, CallEv(attempt + 1, st, TRUE))
                /\ Raise("ApiError", <<st, ParseJson(b)>>)
                /\ now' = now
           ELSE JsonError(CallEv(attempt + 1, st, FALSE))
    /\ created' = created
    /\ Frame

\* the value or the exception reaches the caller
Return ==
    /\ pc = "done"
    /\ pc' = "idle"
    /\ sendsDone' = sendsDone + 1
    /\ lastOutcome' = outcome
    \* the locals of _request (the retry state included) die with the call
    /\ method' = "GET"
    /\ signed' = FALSE
    /\ params' = <<>>
    /\ attempt' = 0
    /\ events' = <<>>
    /\ response' = NoResponse
    /\ outcome' = "none"
    /\ result' = <<>>
    /\ sigInput' = <<>>
    /\ created' = 0
    /\ UNCHANGED <<callerParams, now, jsonErrCaught>>
    /\ UNCHANGED <<valVars, execVars, logVars>>

Next ==
    \/ Send
    \/ place_order
    \/ UnsupportedMethod
    \/ TransportFailure
    \/ Response200
    \/ Response429
    \/ ResponseBanned
    \/ ResponseOther
    \/ Return

Spec == Init /\ [][Next]_vars

\* the sends of the client operations (lines 102-130)
ClientNext ==
    \/ get_exchange_info
    \/ place_order
    \/ cancel_order
    \/ get_order
    \/ get_account_info
    \/ TransportFailure
    \/ Response200
    \/ Response429
    \/ ResponseBanned
    \/ ResponseOther
    \/ Return

ClientSpec == Init /\ [][ClientNext]_vars

-----------------------------------------------------------------------------
(* Properties of one send, stated over its history *)

\* ordinal of the HTTP call at position i of events among the calls of the send
CallNo(i) == Cardinality({j \in Calls : j <= i})

\* ordinal of the call at position i among the calls answered 429
Ord429(i) == Cardinality({j \in Calls : j <= i /\ events[j].status = 429})

\* number of calls before position i that were not answered 429
NotRateLimitedBefore(i) == Cardinality({j \in Calls : j < i /\ events[j].status # 429})

\* a call that ended in a transport-level failure carries no status
IsTransportFailure(e) == e.ev = "call" /\ e.status = 0

\* C1: a send issues at most MAX_RETRIES (3) HTTP calls, whatever the
\* responses; the budget is per send: every send starts at attempt 0 with no
\* call made, however the earlier sends ended, and the attempts used are
\* exactly the calls made in this send.
C1_RetryBudgetPerSend ==
    /\ Cardinality(Calls) <= 3
    /\ Cardinality(Calls) <= MAX_RETRIES
    /\ pc = "loop" => attempt = Cardinality(Calls)
    /\ (pc = "loop" /\ events = <<>>) => attempt = 0

\* a send that follows a failed send uses all three attempts
C1_Witness ==
    /\ sendsDone >= 1
    /\ lastOutcome \in {"RequestFailed", "MaxRetriesExceeded", "Banned"}
    /\ Cardinality(Calls) = 3

\* C2: a 418 or 403 response, at any attempt, ends the send with Banned:
\* it is the last event of the send (no later call, no later sleep).
C2_BannedNeverRetried ==
    \A i \in Calls :
        events[i].status \in {418, 403} =>
            /\ i = Len(events)
            /\ pc = "done"
            /\ outcome = "Banned"

\* a ban received on the second attempt, with one attempt left
C2_Witness ==
    /\ outcome = "Banned"
    /\ response.status = 403
    /\ Cardinality(Calls) = 2
    /\ Cardinality(Sleeps) = 1

\* C3: a response with a non-200 status other than 429, 418, 403 ends the
\* send with ApiError(status, body), whatever the body: it is the last event
\* of the send.
C3_ApiErrorNeverRetried ==
    \A i \in Calls :
        (events[i].status \notin {0, 200, 429, 418, 403}) =>
            /\ i = Len(events)
            /\ pc = "done"
            /\ outcome = "ApiError"
            /\ result[1] = events[i].status

\* C4: a 200 response ends the send with Success and the parsed body of that
\* response, whatever the body: it is the last event of the send.
C4_SuccessOn200 ==
    \A i \in Calls :
        events[i].status = 200 =>
            /\ i = Len(events)
            /\ pc = "done"
            /\ outcome = "Success"
            /\ result = ParseJson(response.body)

\* C5: k < MAX_RETRIES responses of 429 followed by a 200 give exactly k
\* sleeps and Success after k+1 HTTP calls ([429, 429, 200]: two sleeps).
C5_RateLimitedThenSuccess ==
    \A i \in Calls :
        (events[i].status = 200 /\ \A j \in Calls : j < i => events[j].status = 429) =>
            /\ pc = "done"
            /\ outcome = "Success"
            /\ Cardinality(Sleeps) = CallNo(i) - 1
            /\ Cardinality(Calls) = CallNo(i)

\* C6: a 429 received on attempt n (the n-th HTTP call of the send) is
\* followed by a sleep of exactly RETRY_DELAY * n, whatever the earlier
\* attempts were, and it uses up attempt n: after the 429 of attempt 3 no
\* call follows.
C6_LinearBackoffByAttempt ==
    \A i \in Calls :
        events[i].status = 429 =>
            /\ i < Len(events)
            /\ events[i + 1].ev = "sleep"
            /\ events[i + 1].secs = RETRY_DELAY * CallNo(i)
            /\ CallNo(i) \in 1..MAX_RETRIES
            /\ (pc = "loop" /\ i + 1 = Len(events)) => attempt = CallNo(i)
            /\ CallNo(i) = MAX_RETRIES => (i + 1 = Len(events) /\ pc = "done")

\* a 429 on the third attempt after a transport failure and a 429
C6_Witness ==
    /\ Len(events) = 6
    /\ IsTransportFailure(events[1])
    /\ events[3].status = 429
    /\ events[5].status = 429
    /\ events[6].secs = 3

\* C7 as claimed: the k-th 429 of a send is backed off by k * RETRY_DELAY,
\* for every response sequence.
C7_BackoffBy429Count ==
    \A i \in Calls :
        events[i].status = 429 =>
            /\ i < Len(events)
            /\ events[i + 1].ev = "sleep"
            /\ events[i + 1].secs = Ord429(i) * RETRY_DELAY

\* C7 amended: the k-th 429 of a send is backed off by (k + m) * RETRY_DELAY,
\* m being the number of earlier attempts of this send that were not answered
\* 429; so the first 429 is backed off by 1x and the second by 2x exactly
\* when no other kind of attempt preceded them.
C7_BackoffBy429CountPlusOthers ==
    \A i \in Calls :
        events[i].status = 429 =>
            /\ i < Len(events)
            /\ events[i + 1].ev = "sleep"
            /\ events[i + 1].secs = (Ord429(i) + NotRateLimitedBefore(i)) * RETRY_DELAY
            /\ (NotRateLimitedBefore(i) = 0 => events[i + 1].secs = Ord429(i) * RETRY_DELAY)

\* the first 429 of a send arrives after a transport failure
C7_Witness ==
    /\ Len(events) >= 4
    /\ IsTransportFailure(events[1])
    /\ events[3].status = 429
    /\ Ord429(3) = 1
    /\ events[4].secs = 2

\* C8: a transport failure on the first or second attempt is followed by a
\* sleep of exactly RETRY_DELAY (1 second) and the loop goes on to a new
\* attempt; on the third attempt it ends the send with MaxRetriesExceeded and
\* nothing follows it.
C8_TransportFailureRetry ==
    \A i \in Calls :
        IsTransportFailure(events[i]) =>
            IF CallNo(i) < MAX_RETRIES
            THEN /\ i < Len(events)
                 /\ events[i + 1].ev = "sleep"
                 /\ events[i + 1].secs = 1
                 /\ events[i + 1].secs = RETRY_DELAY
                 /\ \/ (i + 1 = Len(events) /\ pc = "loop" /\ attempt = CallNo(i))
                    \/ (i + 2 <= Len(events) /\ events[i + 2].ev = "call")
            ELSE /\ i = Len(events)
                 /\ pc = "done"
                 /\ outcome = "MaxRetriesExceeded"

\* three transport failures in a row
C8_Witness ==
    /\ Len(events) = 5
    /\ IsTransportFailure(events[1])
    /\ IsTransportFailure(events[3])
    /\ IsTransportFailure(events[5])
    /\ outcome = "MaxRetriesExceeded"

\* C9: a send with a method other than GET, POST, DELETE issues no HTTP call,
\* performs no sleep, makes no second attempt and ends with the unsupported
\* method error, which is none of the retried kinds.
C9_UnsupportedMethodFailsFast ==
    (pc # "idle" /\ method \notin {"GET", "POST", "DELETE"}) =>
        /\ events = <<>>
        /\ attempt = 0
        /\ outcome \in {"none", "UnsupportedMethod"}
        /\ pc = "done" => outcome = "UnsupportedMethod"

\* a signed send with method PUT has failed
C9_Witness ==
    /\ pc = "done"
    /\ method = "PUT"
    /\ signed
    /\ outcome = "UnsupportedMethod"

\* C10: the signature of a signed send is computed over the final parameter
\* set, timestamp and recvWindow included, and never over an encoding that
\* holds a signature field, whatever mapping the caller passes.
C10_SignatureNotSelfReferential ==
    (pc # "idle" /\ signed) =>
        /\ {"timestamp", "recvWindow"} \subseteq EncodedKeys(sigInput)
        /\ "signature" \notin EncodedKeys(sigInput)

\* C11: every signed send sets timestamp to the clock reading of that send
\* minus 2000 ms and recvWindow to 60000, and signs over exactly these
\* values; a timestamp the mapping held from an earlier send is overwritten.
C11_FreshTimestamp ==
    [][(pc = "idle" /\ pc' = "loop" /\ signed') =>
          /\ DictGet(params', "timestamp") = Num(now - 2000)
          /\ DictGet(params', "recvWindow") = Num(60000)
          /\ EncodedValue(sigInput', "timestamp") = Num(now - 2000)
          /\ EncodedValue(sigInput', "recvWindow") = Num(60000)]_vars

\* a signed send on a mapping that was signed at an earlier clock reading
C11_Witness ==
    /\ pc = "loop"
    /\ signed
    /\ events = <<>>
    /\ "signature" \in EncodedKeys(sigInput)
    /\ now > StartMs
    /\ DictGet(params, "timestamp") = Num(now - 2000)

-----------------------------------------------------------------------------
(* OrderValidator (validators.py)                                          *)
(*                                                                         *)
(* Strings are sequences of characters.  Floats are Fin(n) for the finite  *)
(* value n/1000, NaN, and the two infinities.                              *)

MaxSymLen == 3         \* length of the symbol strings enumerated

NL == "\n"

Lowercase == <<"a", "b", "c", "d", "e", "f", "g", "h", "i", "j", "k", "l", "m",
               "n", "o", "p", "q", "r", "s", "t", "u", "v", "w", "x", "y", "z">>
Uppercase == <<"A", "B", "C", "D", "E", "F", "G", "H", "I", "J", "K", "L", "M",
               "N", "O", "P", "Q", "R", "S", "T", "U", "V", "W", "X", "Y", "Z">>
Digits == {"0", "1", "2", "3", "4", "5", "6", "7", "8", "9"}

\* the character class [A-Z0-9]
UpperAlnum == {Uppercase[i] : i \in 1..26} \cup Digits

\* str.upper()
UpperChar(c) ==
    IF \E i \in 1..26 : Lowercase[i] = c
    THEN Uppercase[CHOOSE i \in 1..26 : Lowercase[i] = c]
    ELSE c

RECURSIVE upper(_)
upper(str) ==
    IF str = <<>> THEN <<>> ELSE <<UpperChar(Head(str))>> \o upper(Tail(str))

\* re.match(r'^[A-Z0-9]+$', str): a non-empty run of [A-Z0-9] from the start,
\* up to `$`, which matches at the end of the string and also just before a
\* newline that ends the string
ReMatchSymbol(str) ==
    \E k \in 1..Len(str) :
        /\ \A i \in 1..k : str[i] \in UpperAlnum
        /\ \/ k = Len(str)
           \/ (k = Len(str) - 1 /\ str[Len(str)] = NL)

Fin(n) == <<"fin", n>>
NaN    == <<"nan", 0>>
PosInf == <<"inf", 1>>
NegInf == <<"inf", -1>>

\* arguments: a str, a number, None
StrArg(str) == [t |-> "str", v |-> str]
NumArg(f)   == [t |-> "num", v |-> f]
NoneArg     == [t |-> "none", v |-> <<>>]

Ok(v) == <<"ok", v>>
ValidationError == <<"ValidationError">>
ValueError == <<"ValueError">>
TypeError == <<"TypeError">>

\* float(str) on the texts enumerated below
ParseFloat(str) ==
    CASE str = <<"0", ".", "0", "0", "1">> -> Ok(Fin(1))
      [] str = <<"1">>                     -> Ok(Fin(1000))
      [] str = <<"0">>                     -> Ok(Fin(0))
      [] str = <<"-", "1">>                -> Ok(Fin(-1000))
      [] str = <<"n", "a", "n">>           -> Ok(NaN)
      [] str = <<"i", "n", "f">>           -> Ok(PosInf)
      [] OTHER                             -> ValueError

\* float(x)
float(a) ==
    IF a.t = "num" THEN Ok(a.v)
    ELSE IF a.t = "str" THEN ParseFloat(a.v)
    ELSE TypeError

\* f <= 0 on floats: every comparison with NaN is false
LeZero(f) ==
    CASE f[1] = "fin" -> f[2] <= 0
      [] f[1] = "inf" -> f[2] < 0
      [] OTHER        -> FALSE

\* lines 21-33
validate_symbol(a) ==
    IF a.t # "str" \/ a.v = <<>>
    THEN ValidationError
    ELSE IF ReMatchSymbol(upper(a.v)) THEN Ok(upper(a.v)) ELSE ValidationError

\* lines 35-43
VALID_SIDES == {<<"B", "U", "Y">>, <<"S", "E", "L", "L">>}

validate_side(a) ==
    IF upper(a.v) \in VALID_SIDES THEN Ok(upper(a.v)) ELSE ValidationError

\* lines 45-57
validate_quantity(a) ==
    IF float(a)[1] # "ok" THEN ValidationError
    ELSE IF LeZero(float(a)[2]) THEN ValidationError
    ELSE Ok(float(a)[2])

\* lines 59-71
validate_price(a) ==
    IF float(a)[1] # "ok" THEN ValidationError
    ELSE IF LeZero(float(a)[2]) THEN ValidationError
    ELSE Ok(float(a)[2])

(* Inputs of the validators *)

SymChars == {"b", "T", "7", "-", NL}

RECURSIVE StringsUpTo(_)
StringsUpTo(n) ==
    IF n = 0 THEN {<<>>}
    ELSE StringsUpTo(n - 1) \cup
         {Append(str, c) : str \in {x \in StringsUpTo(n - 1) : Len(x) = n - 1}, c \in SymChars}

SymbolArgs ==
    {StrArg(str) : str \in StringsUpTo(MaxSymLen)}
    \cup {StrArg(<<"b", "t", "c", "u", "s", "d", "t">>),
          StrArg(<<"B", "T", "C", "-", "U", "S", "D", "T">>),
          NoneArg, NumArg(Fin(5000))}

SideArgs == {StrArg(<<"b", "u", "y">>), StrArg(<<"S", "E", "L", "L">>),
             StrArg(<<"h", "o", "l", "d">>), StrArg(<<>>)}

FloatTexts == {<<"0", ".", "0", "0", "1">>, <<"1">>, <<"0">>, <<"-", "1">>,
               <<"n", "a", "n">>, <<"i", "n", "f">>, <<"a", "b", "c">>, <<>>}

NumberArgs ==
    {NumArg(Fin(n)) : n \in {-1000, 0, 1, 250, 1000}}
    \cup {NumArg(NaN), NumArg(PosInf), NumArg(NegInf)}
    \cup {StrArg(str) : str \in FloatTexts}
    \cup {NoneArg}

PipeIdle ==
    /\ pc = "idle"
    /\ method = "GET"
    /\ signed = FALSE
    /\ params = <<>>
    /\ callerParams = <<>>
    /\ attempt = 0
    /\ events = <<>>
    /\ response = NoResponse
    /\ outcome = "none"
    /\ result = <<>>
    /\ sigInput = <<>>
    /\ now = StartMs
    /\ sendsDone = 0
    /\ lastOutcome = "none"
    /\ jsonErrCaught = TRUE
    /\ created = 0

ExecOff ==
    /\ xpc = "off"
    /\ strategy = "none"
    /\ xin = <<>>
    /\ xi = 0
    /\ requests = <<>>
    /\ xcalls = 0
    /\ xsleeps = <<>>
    /\ results = <<>>
    /\ buy_orders = <<>>
    /\ sell_orders = <<>>
    /\ xerror = "none"
    /\ exitCode = -1

LogOff ==
    /\ lpc = "off"
    /\ lrecord = <<>>
    /\ lemitted = <<>>

ValInit ==
    /\ PipeIdle
    /\ ExecOff
    /\ LogOff
    /\ vpc = "call"
    /\ vres = <<>>
    /\ \/ (vfn = "validate_symbol" /\ varg \in SymbolArgs)
       \/ (vfn = "validate_side" /\ varg \in SideArgs)
       \/ (vfn = "validate_quantity" /\ varg \in NumberArgs)
       \/ (vfn = "validate_price" /\ varg \in NumberArgs)

Returns(f, r) ==
    /\ vpc = "call"
    /\ vfn = f
    /\ vpc' = "done"
    /\ vres' = r
    /\ UNCHANGED <<vfn, varg, pipeVars, execVars, logVars>>

ValidateSymbol   == Returns("validate_symbol", validate_symbol(varg))
ValidateSide     == Returns("validate_side", validate_side(varg))
ValidateQuantity == Returns("validate_quantity", validate_quantity(varg))
ValidatePrice    == Returns("validate_price", validate_price(varg))

ValNext ==
    \/ ValidateSymbol
    \/ ValidateSide
    \/ ValidateQuantity
    \/ ValidatePrice

ValSpec == ValInit /\ [][ValNext]_vars

\* C17: validate_symbol(s) returns the uppercased s exactly when s is a
\* non-empty string whose uppercased form consists only of A-Z and 0-9 over
\* its whole length, and fails with ValidationError for every other input.
C17_SymbolWholeString ==
    (vpc = "done" /\ vfn = "validate_symbol") =>
        IF /\ varg.t = "str"
           /\ varg.v # <<>>
           /\ \A i \in 1..Len(varg.v) : upper(varg.v)[i] \in UpperAlnum
        THEN vres = Ok(upper(varg.v))
        ELSE vres = ValidationError

\* the float value is a number (finite or infinite, not NaN)
IsNumber(f) == f[1] \in {"fin", "inf"}

\* C18: validate_quantity and validate_price fail with ValidationError for
\* every input that is non-numeric or <= 0, and a value they return is a
\* number strictly greater than 0, equal to the numeric value of the input.
C18_PositiveNumber ==
    (vpc = "done" /\ vfn \in {"validate_quantity", "validate_price"}) =>
        /\ (float(varg)[1] # "ok" => vres = ValidationError)
        /\ (float(varg)[1] = "ok" /\ ~IsNumber(float(varg)[2]) => vres = ValidationError)
        /\ (float(varg)[1] = "ok" /\ LeZero(float(varg)[2]) => vres = ValidationError)
        /\ (vres[1] = "ok" =>
               /\ IsNumber(vres[2])
               /\ ~LeZero(vres[2])
               /\ vres[2] = float(varg)[2])

-----------------------------------------------------------------------------
(* Strategy commands: main() and Executor.execute() of market_orders.py,   *)
(* limit_orders.py, stop_limit.py, oco.py, grid_orders.py, twap.py, and    *)
(* main() of market_orders_v2.py.                                          *)
(*                                                                         *)
(* client.place_order is summarised by its outcome and the number of HTTP  *)
(* calls it made (PlaceOutcomes).  Prices and quantities are Fin(n).       *)

MaxGrids == 3          \* largest num_grids enumerated
MaxOrders == 3         \* largest num_orders enumerated

BUY == <<"B", "U", "Y">>
SELL == <<"S", "E", "L", "L">>

\* what one place_order call can do: _request('POST', ..., signed=True)
\* returns the parsed body (a JSON object, or JSON of another type) or raises
PlaceKinds == {"Success", "SuccessNonObject", "Banned", "ApiError",
               "MaxRetriesExceeded", "RequestFailed", "JSONDecodeError"}

CallsOf(kind) ==
    IF kind \in {"MaxRetriesExceeded", "RequestFailed"}
    THEN {MAX_RETRIES}
    ELSE 1..MAX_RETRIES

PlaceOutcomes == {o \in [kind : PlaceKinds, calls : 1..MAX_RETRIES] : o.calls \in CallsOf(o.kind)}

\* the summary covers every way a signed POST of the pipeline ends
KindOfSend ==
    IF outcome = "Success"
    THEN IF result = ParseJson(JsonBody) THEN "Success" ELSE "SuccessNonObject"
    ELSE outcome

PlaceOutcomesCoverRequest ==
    (pc = "done" /\ method = "POST" /\ signed) =>
        [kind |-> KindOfSend, calls |-> Cardinality(Calls)] \in PlaceOutcomes

\* result.get(...) on the value place_order returned
GetRaises(kind) == kind = "SuccessNonObject"

\* the exception, if any, that a place_order call followed by result.get(...)
\* raises in the caller
RaisedBy(kind) ==
    IF kind = "Success" THEN "none"
    ELSE IF GetRaises(kind) THEN "AttributeError"
    ELSE kind

(* Arguments *)

GoodSymbol == StrArg(<<"b", "t", "c", "u", "s", "d", "t">>)
BadSymbol  == StrArg(<<"B", "T", "C", "-", "U", "S", "D", "T">>)
GoodSide   == StrArg(<<"b", "u", "y">>)
BadSide    == StrArg(<<"h", "o", "l", "d">>)

NoArgs == [symbol |-> GoodSymbol, side |-> GoodSide, quantity |-> NumArg(Fin(1000)),
           price |-> NumArg(Fin(0)), price2 |-> NumArg(Fin(0)), price3 |-> NumArg(Fin(0)),
           n |-> 0, interval |-> 0]

SymbolInputs == {GoodSymbol, BadSymbol}
SideInputs == {GoodSide, BadSide}
QuantityInputs == {NumArg(Fin(1000)), NumArg(Fin(0))}
PriceInputs == {NumArg(Fin(50000)), NumArg(Fin(-1000))}
GridPriceInputs == {NumArg(Fin(12)), NumArg(Fin(20)), NumArg(Fin(100000)),
                    NumArg(Fin(200000)), NumArg(Fin(0))}

Strategies == {"market", "limit", "stop_limit", "oco", "grid", "twap", "market_v2"}

ArgsOf(strat) ==
    CASE strat \in {"market", "market_v2"} ->
            {[NoArgs EXCEPT !.symbol = sy, !.side = sd, !.quantity = q] :
                sy \in SymbolInputs, sd \in SideInputs, q \in QuantityInputs}
      [] strat = "limit" ->
            {[NoArgs EXCEPT !.symbol = sy, !.side = sd, !.quantity = q, !.price = pr] :
                sy \in SymbolInputs, sd \in SideInputs, q \in QuantityInputs, pr \in PriceInputs}
      [] strat = "stop_limit" ->
            {[NoArgs EXCEPT !.symbol = sy, !.quantity = q, !.price = pr, !.price2 = p2] :
                sy \in SymbolInputs, q \in QuantityInputs, pr \in PriceInputs, p2 \in PriceInputs}
      [] strat = "oco" ->
            {[NoArgs EXCEPT !.symbol = sy, !.side = sd, !.quantity = q, !.price = pr,
                            !.price2 = p2, !.price3 = p2] :
                sy \in SymbolInputs, sd \in SideInputs, q \in QuantityInputs,
                pr \in PriceInputs, p2 \in PriceInputs}
      [] strat = "grid" ->
            {[NoArgs EXCEPT !.symbol = sy, !.quantity = q, !.price = lo, !.price2 = up, !.n = k] :
                sy \in SymbolInputs, q \in QuantityInputs, lo \in GridPriceInputs,
                up \in GridPriceInputs, k \in 1..MaxGrids}
      [] strat = "twap" ->
            {[NoArgs EXCEPT !.symbol = sy, !.side = sd, !.quantity = q, !.n = k, !.interval = iv] :
                sy \in SymbolInputs, sd \in SideInputs, q \in QuantityInputs,
                k \in 0..MaxOrders, iv \in {0, 5}}

ExecInit ==
    /\ PipeIdle
    /\ LogOff
    /\ vpc = "off"
    /\ vfn = "none"
    /\ varg = <<>>
    /\ vres = <<>>
    /\ xpc = "start"
    /\ strategy \in Strategies
    /\ xin \in ArgsOf(strategy)
    /\ xi = 0
    /\ requests = <<>>
    /\ xcalls = 0
    /\ xsleeps = <<>>
    /\ results = <<>>
    /\ buy_orders = <<>>
    /\ sell_orders = <<>>
    /\ xerror = "none"
    /\ exitCode = -1

Passes(r) == r[1] = "ok"

\* an order request (order_params) as recorded in the history, with the
\* outcome of its place_order call
Request(i, side, type, price, stopPrice, quantity, kind) ==
    [slice |-> i, symbol |-> validate_symbol(xin.symbol)[2], side |-> side, type |-> type,
     price |-> price, stopPrice |-> stopPrice, quantity |-> quantity, outcome |-> kind]

NoPrice == <<"none", 0>>

ExecFrame == UNCHANGED <<pipeVars, valVars, logVars, strategy, xin>>

\* the validations at the top of execute: on failure ValidationError leaves
\* execute, otherwise execution goes on to the order placement
Validate(strat, valid) ==
    /\ xpc = "start"
    /\ strategy = strat
    /\ IF valid
       THEN xpc' = "placing" /\ xerror' = xerror
       ELSE xpc' = "done" /\ xerror' = "ValidationError"
    /\ UNCHANGED <<xi, requests, xcalls, xsleeps, results, buy_orders, sell_orders, exitCode>>
    /\ ExecFrame

\* one place_order call followed by the logging of result.get(...); any
\* exception leaves execute (logged and re-raised)
PlaceSingle(strat, type, price, stopPrice) ==
    /\ xpc = "placing"
    /\ strategy = strat
    /\ \E o \in PlaceOutcomes :
        /\ requests' = Append(requests,
               Request(0, validate_side(xin.side)[2], type, price, stopPrice,
                       validate_quantity(xin.quantity)[2], o.kind))
        /\ xcalls' = xcalls + o.calls
        /\ xerror' = RaisedBy(o.kind)
    /\ xpc' = "done"
    /\ UNCHANGED <<xi, xsleeps, results, buy_orders, sell_orders, exitCode>>
    /\ ExecFrame

\* main(): sys.exit(1) when execute raised, exit status 0 otherwise
MainExit(strat) ==
    /\ xpc = "done"
    /\ strategy = strat
    /\ xpc' = "exited"
    /\ exitCode' = IF xerror # "none" THEN 1 ELSE 0
    /\ UNCHANGED <<xi, requests, xcalls, xsleeps, results, buy_orders, sell_orders, xerror>>
    /\ ExecFrame

(* market_orders.py *)

MarketValid(in) ==
    /\ Passes(validate_symbol(in.symbol))
    /\ Passes(validate_side(in.side))
    /\ Passes(validate_quantity(in.quantity))

MarketValidate == Validate("market", MarketValid(xin))
MarketPlace == PlaceSingle("market", "MARKET", NoPrice, NoPrice)
MarketMain == MainExit("market")

(* limit_orders.py *)

LimitValid(in) ==
    /\ Passes(validate_symbol(in.symbol))
    /\ Passes(validate_side(in.side))
    /\ Passes(validate_quantity(in.quantity))
    /\ Passes(validate_price(in.price))

LimitValidate == Validate("limit", LimitValid(xin))
LimitPlace == PlaceSingle("limit", "LIMIT", validate_price(xin.price)[2], NoPrice)
LimitMain == MainExit("limit")

(* stop_limit.py: price is limit_price, price2 is stop_price *)

StopLimitValid(in) ==
    /\ Passes(validate_symbol(in.symbol))
    /\ Passes(validate_side(in.side))
    /\ Passes(validate_quantity(in.quantity))
    /\ Passes(validate_price(in.price2))
    /\ Passes(validate_price(in.price))

StopLimitValidate == Validate("stop_limit", StopLimitValid(xin))
StopLimitPlace == PlaceSingle("stop_limit", "STOP", validate_price(xin.price)[2],
                              validate_price(xin.price2)[2])
StopLimitMain == MainExit("stop_limit")

(* oco.py: price is take_profit_price, price2 stop_loss_price, price3      *)
(* stop_limit_price; the three prices are passed on unvalidated            *)

OcoValid(in) ==
    /\ Passes(validate_symbol(in.symbol))
    /\ Passes(validate_side(in.side))
    /\ Passes(validate_quantity(in.quantity))

OcoValidate == Validate("oco", OcoValid(xin))

\* lines 55-67: the take-profit order; an exception leaves execute
OcoPlaceTakeProfit_Continues ==
    /\ xpc = "placing"
    /\ strategy = "oco"
    /\ xi = 0
    /\ \E o \in PlaceOutcomes :
        /\ requests' = Append(requests,
               Request(1, validate_side(xin.side)[2], "TAKE_PROFIT", xin.price.v, xin.price.v,
                       validate_quantity(xin.quantity)[2], o.kind))
        /\ xcalls' = xcalls + o.calls
        /\ xerror' = RaisedBy(o.kind)
        /\ xpc' = "placing"
        /\ xi' = 1
    /\ UNCHANGED <<xsleeps, results, buy_orders, sell_orders, exitCode>>
    /\ ExecFrame

OcoPlaceTakeProfit ==
    /\ xpc = "placing"
    /\ strategy = "oco"
    /\ xi = 0
    /\ \E o \in PlaceOutcomes :
        /\ requests' = Append(requests,
               Request(1, validate_side(xin.side)[2], "TAKE_PROFIT", xin.price.v, xin.price.v,
                       validate_quantity(xin.quantity)[2], o.kind))
        /\ xcalls' = xcalls + o.calls
        /\ xerror' = RaisedBy(o.kind)
        /\ IF RaisedBy(o.kind) = "none"
           THEN xpc' = "placing" /\ xi' = 1
           ELSE xpc' = "done" /\ xi' = xi
    /\ UNCHANGED <<xsleeps, results, buy_orders, sell_orders, exitCode>>
    /\ ExecFrame

\* lines 69-90: the stop-loss order, then the result
OcoPlaceStopLoss ==
    /\ xpc = "placing"
    /\ strategy = "oco"
    /\ xi = 1
    /\ \E o \in PlaceOutcomes :
        /\ requests' = Append(requests,
               Request(2, validate_side(xin.side)[2], "STOP", xin.price3.v, xin.price2.v,
                       validate_quantity(xin.quantity)[2], o.kind))
        /\ xcalls' = xcalls + o.calls
        /\ xerror' = RaisedBy(o.kind)
    /\ xpc' = "done"
    /\ UNCHANGED <<xi, xsleeps, results, buy_orders, sell_orders, exitCode>>
    /\ ExecFrame

OcoMain == MainExit("oco")

(* market_orders_v2.py: main() places the order through python-binance;    *)
(* no validator is called; both except clauses print and fall through      *)

V2Kinds == {"Success", "BinanceAPIException", "Exception"}

V2CreateOrder ==
    /\ xpc = "start"
    /\ strategy = "market_v2"
    /\ \E k \in V2Kinds :
        requests' = Append(requests,
            [slice |-> 0, symbol |-> xin.symbol.v, side |-> upper(xin.side.v), type |-> "MARKET",
             price |-> NoPrice, stopPrice |-> NoPrice, quantity |-> xin.quantity.v, outcome |-> k])
    /\ xcalls' = xcalls + 1
    /\ xpc' = "done"
    /\ UNCHANGED <<xi, xsleeps, results, buy_orders, sell_orders, xerror, exitCode>>
    /\ ExecFrame

\* main() returns after either except clause: exit status 0
V2Main ==
    /\ xpc = "done"
    /\ strategy = "market_v2"
    /\ xpc' = "exited"
    /\ exitCode' = 0
    /\ UNCHANGED <<xi, requests, xcalls, xsleeps, results, buy_orders, sell_orders, xerror>>
    /\ ExecFrame

(* grid_orders.py: price is lower_price, price2 upper_price, n num_grids   *)

\* a <= b on finite floats
FloatLe(a, b) == a[2] <= b[2]

\* lines 17-26
GridValid(in) ==
    /\ Passes(validate_symbol(in.symbol))
    /\ Passes(validate_price(in.price))
    /\ Passes(validate_price(in.price2))
    /\ Passes(validate_quantity(in.quantity))
    /\ ~FloatLe(validate_price(in.price2)[2], validate_price(in.price)[2])
    /\ ~(in.n < 2)

GridValidate == Validate("grid", GridValid(xin))

\* num/den rounded to the nearest integer; a value exactly half way goes
\* where the binary representation of the float falls, either neighbour
RoundHalf(num, den) ==
    IF 2 * (num % den) < den THEN {num \div den}
    ELSE IF 2 * (num % den) > den THEN {(num \div den) + 1}
    ELSE {num \div den, (num \div den) + 1}

\* line 43: round(lower_price + i * price_step, 2), price_step being
\* (upper_price - lower_price) / (num_grids - 1); the values in thousandths
GridPrices(lo, up, n, i) ==
    {10 * c : c \in RoundHalf(lo * (n - 1) + i * (up - lo), 10 * (n - 1))}

\* lines 40, 45, 59: grid_price < mid_price, grid_price > mid_price
IsBuyLevel_Inclusive(gp, lo, up) == 2 * gp <= lo + up

IsBuyLevel(gp, lo, up) == 2 * gp < lo + up

IsSellLevel(gp, lo, up) == 2 * gp > lo + up

\* line 72: except Exception catches whatever place_order raises
GridCatches_NotBanned(kind) == kind # "Banned"

GridCatches(kind) == TRUE

Succeeded(kind) == kind \in {"Success", "SuccessNonObject"}

\* lines 42-73: one iteration of the loop over the levels
GridStep ==
    /\ xpc = "placing"
    /\ strategy = "grid"
    /\ xi < xin.n
    /\ LET lo == validate_price(xin.price)[2][2]
           up == validate_price(xin.price2)[2][2]
       IN \E gp \in GridPrices(lo, up, xin.n, xi) :
            IF IsBuyLevel(gp, lo, up) \/ IsSellLevel(gp, lo, up)
            THEN \E o \in PlaceOutcomes :
                   LET side == IF IsBuyLevel(gp, lo, up) THEN BUY ELSE SELL
                       placed == [level |-> xi, price |-> Fin(gp)]
                   IN /\ requests' = Append(requests,
                             Request(xi, side, "LIMIT", Fin(gp), NoPrice,
                                     validate_quantity(xin.quantity)[2], o.kind))
                      /\ xcalls' = xcalls + o.calls
                      /\ buy_orders' = IF side = BUY /\ Succeeded(o.kind)
                                       THEN Append(buy_orders, placed) ELSE buy_orders
                      /\ sell_orders' = IF side = SELL /\ Succeeded(o.kind)
                                        THEN Append(sell_orders, placed) ELSE sell_orders
                      /\ IF RaisedBy(o.kind) = "none" \/ GridCatches(RaisedBy(o.kind))
                         THEN xi' = xi + 1 /\ xpc' = xpc /\ xerror' = xerror
                         ELSE xi' = xi /\ xpc' = "done" /\ xerror' = RaisedBy(o.kind)
            ELSE /\ xi' = xi + 1
                 /\ UNCHANGED <<requests, xcalls, buy_orders, sell_orders, xpc, xerror>>
    /\ UNCHANGED <<xsleeps, results, exitCode>>
    /\ ExecFrame

\* lines 75-84: the result dictionary
GridReturn ==
    /\ xpc = "placing"
    /\ strategy = "grid"
    /\ xi = xin.n
    /\ results' = [buy_orders |-> buy_orders, sell_orders |-> sell_orders,
                   total_orders |-> Len(buy_orders) + Len(sell_orders)]
    /\ xpc' = "done"
    /\ UNCHANGED <<xi, requests, xcalls, xsleeps, buy_orders, sell_orders, xerror, exitCode>>
    /\ ExecFrame

GridMain == MainExit("grid")

(* twap.py: quantity is total_quantity, n num_orders, interval             *)
(* interval_seconds                                                        *)

\* lines 19-27
TwapValid(in) ==
    /\ Passes(validate_symbol(in.symbol))
    /\ Passes(validate_side(in.side))
    /\ Passes(validate_quantity(in.quantity))
    /\ ~(in.n < 1)
    /\ ~(in.interval < 1)

TwapValidate == Validate("twap", TwapValid(xin))

\* line 49: round(total_quantity / num_orders, 8), in units of 1e-8
SliceQuantities_Whole(total, n) == {<<"fin8", total * 100000>>}

SliceQuantities(total, n) == {<<"fin8", q>> : q \in RoundHalf(total * 100000, n)}

OrderEntry(i) == [slice |-> i, entry |-> "order"]
ErrorEntry(i) == [slice |-> i, entry |-> "error"]

\* lines 42-65: one iteration of the loop over the slices.  The sleep of
\* line 61 is inside the try block, after the logging of result.get(...)
TwapStep ==
    /\ xpc = "placing"
    /\ strategy = "twap"
    /\ xi < xin.n
    /\ \E o \in PlaceOutcomes, q \in SliceQuantities(validate_quantity(xin.quantity)[2][2], xin.n) :
        \* order_size is computed once (line 29): every slice rounds the same float
        /\ \A k \in 1..Len(requests) : requests[k].quantity = q
        /\ requests' = Append(requests,
               Request(xi + 1, validate_side(xin.side)[2], "MARKET", NoPrice, NoPrice, q, o.kind))
        /\ xcalls' = xcalls + o.calls
        /\ results' = (IF Succeeded(o.kind) THEN Append(results, OrderEntry(xi + 1)) ELSE results)
                      \o (IF RaisedBy(o.kind) # "none" THEN <<ErrorEntry(xi + 1)>> ELSE <<>>)
        /\ xsleeps' = IF RaisedBy(o.kind) = "none" /\ xi < xin.n - 1
                      THEN Append(xsleeps, <<xi + 1, xin.interval>>)
                      ELSE xsleeps
    /\ xi' = xi + 1
    /\ UNCHANGED <<xpc, buy_orders, sell_orders, xerror, exitCode>>
    /\ ExecFrame

\* lines 67-72
TwapReturn ==
    /\ xpc = "placing"
    /\ strategy = "twap"
    /\ xi = xin.n
    /\ xpc' = "done"
    /\ UNCHANGED <<xi, requests, xcalls, xsleeps, results, buy_orders, sell_orders, xerror, exitCode>>
    /\ ExecFrame

TwapMain == MainExit("twap")

ExecNext ==
    \/ MarketValidate
    \/ MarketPlace
    \/ MarketMain
    \/ LimitValidate
    \/ LimitPlace
    \/ LimitMain
    \/ StopLimitValidate
    \/ StopLimitPlace
    \/ StopLimitMain
    \/ OcoValidate
    \/ OcoPlaceTakeProfit
    \/ OcoPlaceStopLoss
    \/ OcoMain
    \/ GridValidate
    \/ GridStep
    \/ GridReturn
    \/ GridMain
    \/ TwapValidate
    \/ TwapStep
    \/ TwapReturn
    \/ TwapMain
    \/ V2CreateOrder
    \/ V2Main

ExecSpec == ExecInit /\ [][ExecNext]_vars

-----------------------------------------------------------------------------
(* Claims about the strategy commands                                      *)

SixExecutors == {"market", "limit", "stop_limit", "oco", "grid", "twap"}

\* the rule of the validator table that an input of the running strategy
\* fails, or one of the explicit checks of grid and TWAP
InputFailsValidation ==
    \/ ~Passes(validate_symbol(xin.symbol))
    \/ strategy # "grid" /\ ~Passes(validate_side(xin.side))
    \/ ~Passes(validate_quantity(xin.quantity))
    \/ strategy \in {"limit", "stop_limit", "oco", "grid"} /\ ~Passes(validate_price(xin.price))
    \/ strategy \in {"stop_limit", "oco", "grid"} /\ ~Passes(validate_price(xin.price2))
    \/ strategy = "oco" /\ ~Passes(validate_price(xin.price3))
    \/ /\ strategy = "grid"
       /\ Passes(validate_price(xin.price))
       /\ Passes(validate_price(xin.price2))
       /\ validate_price(xin.price2)[2][2] <= validate_price(xin.price)[2][2]
    \/ strategy = "grid" /\ xin.n < 2
    \/ strategy = "twap" /\ xin.n < 1
    \/ strategy = "twap" /\ xin.interval < 1

\* C12: in each of the six executors, when a caller-supplied input fails
\* validation (grid upper <= lower, grid num_grids < 2, TWAP num_orders < 1
\* and TWAP interval < 1 included), execute fails with ValidationError and
\* no order request is issued: zero HTTP calls in that execution.
C12_ValidationBeforeOrders ==
    (strategy \in SixExecutors /\ InputFailsValidation) =>
        /\ requests = <<>>
        /\ xcalls = 0
        /\ xpc # "start" => (xpc \in {"done", "exited"} /\ xerror = "ValidationError")

(* grid *)

GridRan == strategy = "grid" /\ xpc # "start" /\ xerror # "ValidationError"

lower_price == validate_price(xin.price)[2][2]
upper_price == validate_price(xin.price2)[2][2]

RequestsAt(i) == SelectSeq(requests, LAMBDA r : r.slice = i)

\* exactly one request was issued for level i: a limit order of that side
\* and price
OneLimitOrder(i, side, price) ==
    /\ Len(RequestsAt(i)) = 1
    /\ RequestsAt(i)[1].side = side
    /\ RequestsAt(i)[1].type = "LIMIT"
    /\ RequestsAt(i)[1].price = price

PlacedPrices == [k \in 1..Len(requests) |-> <<requests[k].side, requests[k].price>>]

\* C13 as stated: level i is lower + i*(upper-lower)/(num_grids-1); a BUY
\* limit order for every level strictly below the midpoint, a SELL limit
\* order for every level strictly above it, no order for a level equal to
\* the midpoint; lower=100, upper=200, num_grids=3 gives 100, 150, 200 with
\* 150 on neither side.
C13_GridLevels ==
    GridRan =>
        /\ \A i \in 0..(xi - 1) :
            LET num == lower_price * (xin.n - 1) + i * (upper_price - lower_price)
                den == xin.n - 1
            IN /\ 2 * num < (lower_price + upper_price) * den =>
                      /\ Len(RequestsAt(i)) = 1
                      /\ RequestsAt(i)[1].side = BUY
                      /\ RequestsAt(i)[1].type = "LIMIT"
                      /\ RequestsAt(i)[1].price[2] * den = num
               /\ 2 * num > (lower_price + upper_price) * den =>
                      /\ Len(RequestsAt(i)) = 1
                      /\ RequestsAt(i)[1].side = SELL
                      /\ RequestsAt(i)[1].type = "LIMIT"
                      /\ RequestsAt(i)[1].price[2] * den = num
               /\ 2 * num = (lower_price + upper_price) * den => RequestsAt(i) = <<>>
        /\ (lower_price = 100000 /\ upper_price = 200000 /\ xin.n = 3 /\ xi = 3) =>
               PlacedPrices = << <<BUY, Fin(100000)>>, <<SELL, Fin(200000)>> >>

\* C13 as the code has it: level i is lower + i*(upper-lower)/(num_grids-1)
\* rounded to two decimals; the rounded level is the price of the order and
\* is what is compared with the midpoint (lower+upper)/2: BUY strictly
\* below, SELL strictly above, no order when equal; lower=100, upper=200,
\* num_grids=3 gives 100, 150, 200 with 150 on neither side.
C13_GridLevelsRounded ==
    GridRan =>
        /\ \A i \in 0..(xi - 1) :
            \E gp \in GridPrices(lower_price, upper_price, xin.n, i) :
               /\ 2 * gp < lower_price + upper_price => OneLimitOrder(i, BUY, Fin(gp))
               /\ 2 * gp > lower_price + upper_price => OneLimitOrder(i, SELL, Fin(gp))
               /\ 2 * gp = lower_price + upper_price => RequestsAt(i) = <<>>
        /\ (lower_price = 100000 /\ upper_price = 200000 /\ xin.n = 3 /\ xi = 3) =>
               PlacedPrices = << <<BUY, Fin(100000)>>, <<SELL, Fin(200000)>> >>

\* lower=0.012, upper=0.02, num_grids=3: the middle level 0.016 is the
\* midpoint; rounded to 0.02 it is sold
C13_Witness ==
    /\ GridRan
    /\ xpc = "done"
    /\ lower_price = 12
    /\ upper_price = 20
    /\ xin.n = 3
    /\ PlacedPrices = << <<BUY, Fin(10)>>, <<SELL, Fin(20)>>, <<SELL, Fin(20)>> >>

Placements(side) ==
    LET s == SelectSeq(requests, LAMBDA r : r.side = side /\ Succeeded(r.outcome))
    IN [k \in 1..Len(s) |-> [level |-> s[k].slice, price |-> s[k].price]]

\* C14: in grid execution the failure of one level's placement, of any
\* kind (Banned included), does not abort the grid: every level is gone
\* through, each level whose price is not the midpoint gets its own request,
\* in increasing level order; buy_orders and sell_orders hold exactly the
\* successful placements of their side and total_orders is their sum.
C14_GridContinuesAfterFailure ==
    GridRan =>
        /\ xerror = "none"
        /\ xpc \in {"done", "exited"} => xi = xin.n
        /\ \A i \in 0..(xi - 1) :
            \E gp \in GridPrices(lower_price, upper_price, xin.n, i) :
                Len(RequestsAt(i)) = IF 2 * gp = lower_price + upper_price THEN 0 ELSE 1
        /\ \A j, k \in 1..Len(requests) : j < k => requests[j].slice < requests[k].slice
        /\ buy_orders = Placements(BUY)
        /\ sell_orders = Placements(SELL)
        /\ xpc \in {"done", "exited"} =>
               /\ results.buy_orders = Placements(BUY)
               /\ results.sell_orders = Placements(SELL)
               /\ results.total_orders = Len(Placements(BUY)) + Len(Placements(SELL))

C14_Witness ==
    /\ GridRan
    /\ xpc = "done"
    /\ Len(requests) = 2
    /\ requests[1].outcome = "Banned"
    /\ requests[2].outcome = "Success"
    /\ results.total_orders = 1

(* TWAP *)

TwapRan == strategy = "twap" /\ xpc \in {"done", "exited"} /\ xerror # "ValidationError"

\* C15: TWAP with num_orders = N sleeps interval_seconds between every two
\* consecutive slices and not after the last: exactly N-1 delays in every
\* execution, whether the slices succeed or fail.
C15_SleepsBetweenSlices ==
    TwapRan =>
        /\ Len(xsleeps) = xin.n - 1
        /\ \A k \in 1..Len(xsleeps) : xsleeps[k] = <<k, xin.interval>>

\* C16: TWAP with num_orders = N issues the slices in order 1..N, one
\* placement per slice, and returns exactly N entries, entry i being the
\* response of slice i or an error entry tagged slice = i; a failed slice
\* of any kind does not abort the remaining ones.
C16_OneEntryPerSlice ==
    TwapRan =>
        /\ xerror = "none"
        /\ Len(requests) = xin.n
        /\ \A i \in 1..Len(requests) : requests[i].slice = i /\ requests[i].type = "MARKET"
        /\ Len(results) = xin.n
        /\ \A i \in 1..Len(results) :
            /\ results[i].slice = i
            /\ results[i].entry = IF requests[i].outcome = "Success" THEN "order" ELSE "error"

(* exit status *)

ErrorOccurred ==
    \/ xerror # "none"
    \/ \E k \in 1..Len(requests) : requests[k].outcome \notin {"Success", "SuccessNonObject"}

\* C20: every strategy command (market, market v2, limit, stop-limit, grid,
\* TWAP, OCO) exits with code 0 on success and with code 1 whenever a
\* validation error or an API error occurred during its run.
C20_ExitCode ==
    xpc = "exited" => exitCode = IF ErrorOccurred THEN 1 ELSE 0

-----------------------------------------------------------------------------
(* Logging: the records _request and place_order hand to the logger        *)
(* (binance_client.py) and SensitiveDataFilter (logger_config.py), which   *)
(* both handlers apply before they format and write a record.              *)
(*                                                                         *)
(* A message is a sequence of tokens: T(s) for a piece of literal text and *)
(* the tagged values Str(..), Num(..), hmac(..) of the request pipeline.   *)

API_KEY == "key"

T(s) == <<"t", s>>

\* a query string as it appears inside a text
QueryText(q) == [i \in 1..Len(q) |-> IF i % 4 = 3 THEN q[i] ELSE T(q[i])]

SENSITIVE_PATTERNS == <<"apiKey", "signature", "API_KEY", "API_SECRET">>

\* pattern in msg_str
Contains(msg, pattern) == \E i \in 1..Len(msg) : msg[i] = T(pattern)

\* msg_str.replace(pattern, '[REDACTED]')
replace(msg, pattern) ==
    [i \in 1..Len(msg) |-> IF msg[i] = T(pattern) THEN T("[REDACTED]") ELSE msg[i]]

\* lines 13-16: the loop tests and replaces in msg_str, the text of the
\* message as it came in, and assigns the outcome to record.msg each time
RECURSIVE FilterLoop(_, _, _)
FilterLoop(msg_str, msg, patterns) ==
    IF patterns = <<>> THEN msg
    ELSE FilterLoop(msg_str,
                    IF Contains(msg_str, Head(patterns))
                    THEN replace(msg_str, Head(patterns))
                    ELSE msg,
                    Tail(patterns))

\* SensitiveDataFilter.filter(record): only record.msg is rewritten
filter(record) == [record EXCEPT !.msg = FilterLoop(record.msg, record.msg, SENSITIVE_PATTERNS)]

\* str(e) of the RequestException caught at line 94: a timeout names no
\* URL, a connection error quotes the URL with its query string
Endpoint == T("/fapi/v1/order")

ExceptionTexts(p) ==
    { <<T("Read timed out.")>>,
      <<T("Max retries exceeded with url: "), Endpoint, T("?")>> \o QueryText(urlencode(p)) }

\* the mappings _request sends: unsigned, or signed at one of the clock
\* readings of the model
SentParams ==
    {<<>>, OrderParams} \cup {Signed(OrderParams, StartMs + 1000 * k) : k \in 0..MaxSends}

Record(line, msg, extra, exc) == [line |-> line, msg |-> msg, extra |-> extra, exc |-> exc]

\* the logger calls of binance_client.py, by line
LogRecords ==
    {Record(59, <<T("API Request: "), T(m), T(" "), Endpoint>>, <<"attempt", Num(a)>>, <<>>) :
        m \in SupportedMethods, a \in 1..MAX_RETRIES}
    \cup {Record(76, <<T("API Success: "), T(m), T(" "), Endpoint>>, <<"status", Num(200)>>, <<>>) :
        m \in SupportedMethods}
    \cup {Record(81, <<T("Rate limit exceeded, backing off")>>, <<"retry_after", Num(RETRY_DELAY)>>, <<>>)}
    \cup {Record(86, <<T("IP banned or WAF limit violated")>>, <<"status", Num(st)>>, <<>>) :
        st \in {418, 403}}
    \cup {Record(91, <<T("API Error: "), T(JsonBody)>>, <<"status", Num(st)>>, <<>>) :
        st \in {400, 500}}
    \cup {Record(95, <<T("Request failed: ")>> \o txt, <<"attempt", Num(a)>>, txt) :
        a \in 1..MAX_RETRIES, txt \in UNION {ExceptionTexts(p) : p \in SentParams}}
    \cup {Record(111, <<T("Placing order")>>, <<"symbol", Str("BTCUSDT")>>, <<>>)}

LogInit ==
    /\ PipeIdle
    /\ ExecOff
    /\ vpc = "off"
    /\ vfn = "none"
    /\ varg = <<>>
    /\ vres = <<>>
    /\ lpc = "logged"
    /\ lrecord \in LogRecords
    /\ lemitted = <<>>

LogFrame == UNCHANGED <<pipeVars, valVars, execVars>>

\* the handler runs its filters on the record
Filter ==
    /\ lpc = "logged"
    /\ lrecord' = filter(lrecord)
    /\ lpc' = "filtered"
    /\ UNCHANGED lemitted
    /\ LogFrame

\* the formatter writes the message, the extra fields and, with
\* exc_info=True (line 95), the traceback, which ends with str(e)
Emit ==
    /\ lpc = "filtered"
    /\ lemitted' = [msg |-> lrecord.msg, extra |-> lrecord.extra, exc |-> lrecord.exc]
    /\ lpc' = "emitted"
    /\ UNCHANGED lrecord
    /\ LogFrame

LogNext ==
    \/ Filter
    \/ Emit

LogSpec == LogInit /\ [][LogNext]_vars

\* the values that must not be written: the API key, the API secret, a
\* computed signature
IsSecret(tok) ==
    \/ tok[1] = "hmac"
    \/ tok \in {T(API_KEY), T(API_SECRET), Str(API_KEY), Str(API_SECRET)}

\* C21: no emitted log entry contains the value of the API key, the API
\* secret or a computed signature, in its message, its fields or the
\* exception text logged with it; the records that log a failed request's
\* exception text included.
C21_NoSecretEmitted ==
    lpc = "emitted" =>
        /\ \A i \in 1..Len(lemitted.msg) : ~IsSecret(lemitted.msg[i])
        /\ \A i \in 1..Len(lemitted.exc) : ~IsSecret(lemitted.exc[i])
        /\ ~IsSecret(lemitted.extra[2])

-----------------------------------------------------------------------------
(* Further properties of one send *)

SendOutcomes == {"Success", "Banned", "ApiError", "MaxRetriesExceeded",
                 "UnsupportedMethod", "RequestFailed"}

\* the last attempt of the budget was made and was answered 429
LastAttemptRateLimited ==
    \E i \in Calls : CallNo(i) = MAX_RETRIES /\ events[i].status = 429

\* C22: a send ends with RequestFailed exactly when the attempt loop
\* completes, which is exactly when the third attempt received a 429; every
\* other send ends with Success, Banned, ApiError, MaxRetriesExceeded or the
\* unsupported-method error.
C22_OutcomeTaxonomy ==
    pc = "done" =>
        /\ outcome \in SendOutcomes
        /\ outcome = "RequestFailed" <=> LastAttemptRateLimited

SignFields == {"timestamp", "recvWindow", "signature"}

\* the step in which _request is called
IsCall == pc = "idle" /\ pc' = "loop"

\* C23: a send with signed = false adds no timestamp, recvWindow or
\* signature: what it sends in every HTTP call is exactly the parameters it
\* was given, and the caller's mapping is as it was; get_exchange_info is
\* the only client operation issued unsigned, place_order, cancel_order,
\* get_order and get_account_info are always signed.
C23_UnsignedAddsNothing ==
    [][/\ (IsCall /\ ~signed') =>
              /\ params' \in {<<>>, SymbolParams}
              /\ Keys(params') \cap SignFields = {}
              /\ sigInput' = <<>>
              /\ callerParams' = callerParams
       /\ (pc = "loop" /\ ~signed) => (params' = params /\ callerParams' = callerParams)
       /\ get_exchange_info => ~signed'
       /\ (place_order \/ cancel_order \/ get_order \/ get_account_info) => signed'
       /\ (IsCall /\ ~signed') => get_exchange_info]_vars

\* an unsigned send that took two calls, made while the caller holds the
\* mapping of an earlier signed order
C23_Witness ==
    /\ pc = "done"
    /\ ~signed
    /\ params = SymbolParams
    /\ Cardinality(Calls) = 2
    /\ HasKey(callerParams, "signature")

\* seconds slept in a history
RECURSIVE SleptIn(_)
SleptIn(evs) == IF evs = <<>> THEN 0 ELSE Head(evs).secs + SleptIn(Tail(evs))

\* C25: signing happens once per send, before the attempt loop: every
\* attempt of a signed send carries the same parameters, with the timestamp
\* of the moment of the call and the same signature, however long the
\* earlier attempts and sleeps took.
C25_SignedOncePerSend ==
    [][pc = "loop" =>
          /\ params' = params
          /\ sigInput' = sigInput
          /\ signed =>
                /\ DictGet(params', "timestamp") = Num(now' - 1000 * SleptIn(events') - 2000)
                /\ DictGet(params', "signature") = hmac(API_SECRET, sigInput')]_vars

\* a signed send at its third call, three seconds after it was signed
C25_Witness ==
    /\ signed
    /\ pc = "done"
    /\ Cardinality(Calls) = 3
    /\ SleptIn(events) = 3
    /\ DictGet(params, "timestamp") = Num(now - 5000)

\* C26: one place_order call creates at most one order on the exchange,
\* whatever the exchange answers and whichever calls fail in transport, a
\* POST that the exchange accepted but whose response was lost included.
C26_AtMostOneOrder ==
    (method = "POST" /\ signed) => created <= 1

\* C27 as stated: no sleep after the final attempt; at most
\* MAX_RETRIES - 1 = 2 sleeps and at most 1 x RETRY_DELAY + 2 x RETRY_DELAY
\* slept in one send.
C27_NoSleepAfterFinalAttempt ==
    /\ \A i \in Sleeps : events[i].attempt < MAX_RETRIES
    /\ Cardinality(Sleeps) <= MAX_RETRIES - 1
    /\ SleptIn(events) <= 1 * RETRY_DELAY + 2 * RETRY_DELAY

\* C27 as the code has it: a sleep follows the final attempt exactly when
\* that attempt was answered 429 (3 x RETRY_DELAY, then RequestFailed); at
\* most MAX_RETRIES = 3 sleeps and 6 x RETRY_DELAY in one send, and at most
\* 2 sleeps and 3 x RETRY_DELAY when the final attempt was not answered 429.
C27_SleepAfterFinalAttemptOn429Only ==
    /\ \A i \in Sleeps :
         events[i].attempt = MAX_RETRIES =>
            /\ events[i - 1].ev = "call"
            /\ events[i - 1].status = 429
            /\ events[i].secs = MAX_RETRIES * RETRY_DELAY
            /\ i = Len(events)
            /\ pc = "done"
            /\ outcome = "RequestFailed"
    /\ LastAttemptRateLimited => \E i \in Sleeps : events[i].attempt = MAX_RETRIES
    /\ Cardinality(Sleeps) <= MAX_RETRIES
    /\ SleptIn(events) <= (1 + 2 + 3) * RETRY_DELAY
    /\ ~LastAttemptRateLimited =>
            /\ Cardinality(Sleeps) <= MAX_RETRIES - 1
            /\ SleptIn(events) <= (1 + 2) * RETRY_DELAY

\* three 429 answers
C27_Witness ==
    /\ pc = "done"
    /\ outcome = "RequestFailed"
    /\ Cardinality(Sleeps) = 3
    /\ SleptIn(events) = 6

\* C29 as stated: a signed send writes timestamp, recvWindow and signature
\* into the caller's own mapping and leaves every key the caller supplied
\* with its value; the three fields stay in the caller's mapping after the
\* send returns or fails.
C29_SignedWritesCallerMapping ==
    [][/\ (IsCall /\ signed') =>
            \A p \in ParamInputs :
                Signed(p, now) = params' =>
                    /\ callerParams' = params'
                    /\ SignFields \subseteq Keys(callerParams')
                    /\ \A k \in Keys(p) : DictGet(callerParams', k) = DictGet(p, k)
       /\ (signed /\ pc \in {"loop", "done"}) => callerParams' = callerParams]_vars

\* C29 as the code has it: called with a non-empty mapping, a signed send
\* writes the three fields into that mapping, overwriting those of them the
\* caller supplied, and leaves every other key with its value; they stay
\* there after the send returns or fails.  Called with an empty mapping it
\* works on a new one and the caller's stays empty.
C29_SignedWritesNonEmptyCallerMapping ==
    [][/\ (IsCall /\ signed') =>
            \A p \in ParamInputs :
                Signed(p, now) = params' =>
                    IF p = <<>>
                    THEN callerParams' = <<>>
                    ELSE /\ callerParams' = params'
                         /\ SignFields \subseteq Keys(callerParams')
                         /\ DictGet(callerParams', "recvWindow") = Num(DEFAULT_RECV_WINDOW)
                         /\ \A k \in Keys(p) \ SignFields :
                                DictGet(callerParams', k) = DictGet(p, k)
       /\ (signed /\ pc \in {"loop", "done"}) => callerParams' = callerParams]_vars

\* the second signed send on the same mapping has failed
C29_Witness ==
    /\ pc = "done"
    /\ signed
    /\ outcome = "Banned"
    /\ sendsDone = 1
    /\ "signature" \in EncodedKeys(sigInput)
    /\ callerParams = params
    /\ DictGet(callerParams, "symbol") = Str("BTCUSDT")

-----------------------------------------------------------------------------
(* Further properties of the strategy commands *)

TwapPlacing == strategy = "twap" /\ xpc # "start" /\ xerror # "ValidationError"

\* total_quantity in units of 1e-8
TotalQuantity8 == validate_quantity(xin.quantity)[2][2] * 100000

====
